---- MODULE Spec2Model ----
\* Stage-2 structural parser of simdjson (src/generic/stage2/structural_parser.h)
\* as a state machine: one action per label of the goto machine in
\* structural_parser::parse, driving a depth-stack builder.
EXTENDS Integers, Sequences, FiniteSets, TLC

VARIABLES
  buf,                    \* the structural stream: buf[structural_indexes[i]] for i < n
  streaming,              \* the template parameter STREAMING of this session
  next_structural_index,  \* dom_parser.next_structural_index (persists across calls)
  next_structural,        \* the parser cursor, as an index into structural_indexes
  value,                  \* the local `value` of parse, as an index into structural_indexes
  depth,                  \* structural_parser::depth
  is_array,               \* the builder's stack of container kinds (TRUE = array)
  pc,                     \* position of the call: a label of parse, "idle" or "returned"
  result,                 \* the error_code the last call returned
  events,                 \* the builder callbacks invoked by the current call, in order
  calls,                  \* number of parse calls made on this buffer
  finish_ran,             \* the current call ran finish()
  entry_index,            \* next_structural_index when the current call was entered
  decrements              \* times the current call executed next_structural--

vars == <<buf, streaming, next_structural_index, next_structural, value, depth,
          is_array, pc, result, events, calls, finish_ran, entry_index, decrements>>

\* ---------------------------------------------------------------------------
\* Bounds

MaxLen == 4      \* every structural stream of at most this many tokens is an input
MaxElems == 2    \* elements per container in the generated valid documents
MaxCalls == 4    \* parse calls made on one buffer
MaxDepth == 3    \* the builder's nesting limit (max_depth)

\* ---------------------------------------------------------------------------
\* Error codes and tokens

SUCCESS == "SUCCESS"
EMPTY == "EMPTY"
TAPE_ERROR == "TAPE_ERROR"
NUMBER_ERROR == "NUMBER_ERROR"
DEPTH_ERROR == "DEPTH_ERROR"
PENDING == "PENDING"     \* the call has not returned yet

None == 0 - 1            \* no key / no value pointer

\* The first byte of each kind of structural: the six JSON delimiters, a string
\* ("\""), a well-formed number or literal ("1") and a malformed number ("-").
Tokens == {"{", "}", "[", "]", ",", ":", "\"", "1", "-"}

\* buf[len]: the first padding byte, which the index entry after the last
\* structural points to.
Sentinel == "NUL"

n_structural_indexes == Len(buf)

\* buf[dom_parser.structural_indexes[i]]
At(i) == IF i >= 0 /\ i < Len(buf) THEN buf[i + 1] ELSE Sentinel

\* ---------------------------------------------------------------------------
\* Builder: a stack of container kinds, depth counted in the parser

TopOf(st) == IF st = <<>> THEN "none" ELSE IF st[Len(st)] THEN "array" ELSE "object"

Front(st) == IF st = <<>> THEN <<>> ELSE SubSeq(st, 1, Len(st) - 1)

start_container(isarr, d, st) ==
  IF d >= MaxDepth
    THEN [rc |-> DEPTH_ERROR, depth |-> d, is_array |-> st]
    ELSE [rc |-> SUCCESS, depth |-> d + 1, is_array |-> Append(st, isarr)]

end_container(d, st) ==
  [rc |-> SUCCESS, depth |-> IF d > 0 THEN d - 1 ELSE 0, is_array |-> Front(st)]

try_end(isarr, d, st) ==
  IF st = <<>> \/ st[Len(st)] # isarr
    THEN [rc |-> TAPE_ERROR, depth |-> d, is_array |-> st]
    ELSE end_container(d, st)

try_resume(isarr, d, st) ==
  IF st = <<>> \/ st[Len(st)] # isarr
    THEN [rc |-> TAPE_ERROR, depth |-> d, is_array |-> st]
    ELSE [rc |-> SUCCESS, depth |-> d, is_array |-> st]

parse_scalar(tok, d, st) ==
  [rc |-> IF tok \in {"1", "\""} THEN SUCCESS
          ELSE IF tok = "-" THEN NUMBER_ERROR ELSE TAPE_ERROR,
   depth |-> d, is_array |-> st]

Builder(name, v, d, st) ==
  CASE name \in {"start_object", "start_object_field"} -> start_container(FALSE, d, st)
    [] name \in {"start_array", "start_array_field"} -> start_container(TRUE, d, st)
    [] name \in {"end_object", "end_array"} -> end_container(d, st)
    [] name = "try_end_object" -> try_end(FALSE, d, st)
    [] name = "try_end_array" -> try_end(TRUE, d, st)
    [] name = "try_resume_object" -> try_resume(FALSE, d, st)
    [] name = "try_resume_array" -> try_resume(TRUE, d, st)
    [] name \in {"primitive", "primitive_field", "root_primitive"} -> parse_scalar(At(v), d, st)
    [] OTHER -> [rc |-> SUCCESS, depth |-> d, is_array |-> st]

\* ---------------------------------------------------------------------------
\* SIMDJSON_TRY: the callbacks of one state, in order, stopping at the first
\* that does not return SUCCESS

Cb(name, k, v, cur) == [name |-> name, key |-> k, value |-> v, cursor |-> cur]

\* The record of one callback: what was passed, the cursor and the innermost
\* container when it was made, what it returned and the depth it left
Event(c, st, r) ==
  [name |-> c.name, key |-> c.key, value |-> c.value, cursor |-> c.cursor,
   top |-> TopOf(st), rc |-> r.rc, depth |-> r.depth]

WithEvents(evs, o) == [o EXCEPT !.evs = evs \o @]

RECURSIVE Invoke(_, _, _)
InvokeRest(cs, st, r) ==
  IF r.rc # SUCCESS
    THEN [rc |-> r.rc, depth |-> r.depth, is_array |-> r.is_array,
          evs |-> <<Event(Head(cs), st, r)>>]
    ELSE WithEvents(<<Event(Head(cs), st, r)>>, Invoke(Tail(cs), r.depth, r.is_array))

Invoke(cs, d, st) ==
  IF cs = <<>> THEN [rc |-> SUCCESS, depth |-> d, is_array |-> st, evs |-> <<>>]
  ELSE InvokeRest(cs, st, Builder(Head(cs).name, Head(cs).value, d, st))

\* What one state of the machine does: the callbacks it makes, then the label it
\* jumps to, or the code it returns.
Outcome(label, cur, val, r) ==
  [pc |-> IF r.rc = SUCCESS THEN label ELSE "returned",
   result |-> IF r.rc = SUCCESS THEN PENDING ELSE r.rc,
   cursor |-> cur, value |-> val, evs |-> r.evs,
   depth |-> r.depth, is_array |-> r.is_array, backs |-> 0]

GotoFrom(label, cur, val, cs, d, st) == Outcome(label, cur, val, Invoke(cs, d, st))

Goto(label, cur, val, cs) == GotoFrom(label, cur, val, cs, depth, is_array)

ReturnFrom(code, cur, val, d, st) ==
  [pc |-> "returned", result |-> code, cursor |-> cur, value |-> val, evs |-> <<>>,
   depth |-> d, is_array |-> st, backs |-> 0]

Return(code, cur, val) == ReturnFrom(code, cur, val, depth, is_array)

Apply(o) ==
  /\ pc' = o.pc
  /\ result' = o.result
  /\ next_structural' = o.cursor
  /\ value' = o.value
  /\ events' = events \o o.evs
  /\ depth' = o.depth
  /\ is_array' = o.is_array
  /\ decrements' = decrements + o.backs
  /\ UNCHANGED <<buf, streaming, next_structural_index, calls, finish_ran, entry_index>>

\* ---------------------------------------------------------------------------
\* structural_parser::parse

\* The static entry: a fresh parser at next_structural_index (streaming) or 0.
parse_start == IF streaming THEN next_structural_index ELSE 0

at_end(cur) == cur = n_structural_indexes

\* The first-value switch without the test of the last structural
outer_array_unchecked == TRUE

\* The top-level array must end the buffer (non-streaming only).
outer_array_closed == streaming \/ At(n_structural_indexes - 1) = "]"

\* "Read first value", sd being the outcome of start_document
read_first_value(start, sd) ==
  IF sd.pc = "returned" THEN sd
  ELSE WithEvents(sd.evs,
         CASE At(start) = "{" ->
                GotoFrom("generic_object_begin", start + 1, start, <<>>, sd.depth, sd.is_array)
           [] At(start) = "[" ->
                IF outer_array_closed
                  THEN GotoFrom("generic_array_begin", start + 1, start, <<>>,
                                sd.depth, sd.is_array)
                  ELSE ReturnFrom(TAPE_ERROR, start + 1, start, sd.depth, sd.is_array)
           [] OTHER ->
                GotoFrom("document_end", start + 1, start,
                         <<Cb("root_primitive", None, start, start + 1)>>,
                         sd.depth, sd.is_array))

\* "Start the document" and "Read first value"
first_value(start) ==
  read_first_value(start,
    GotoFrom("first_value", start, None, <<Cb("start_document", None, None, start)>>,
             0, <<>>))

\* parse without the at_end test
parse_entry_no_empty_check == first_value(parse_start)

parse_entry ==
  IF at_end(parse_start)
    THEN ReturnFrom(EMPTY, parse_start, None, 0, <<>>)
    ELSE first_value(parse_start)

\* generic_object_begin reporting an empty object as an opened and closed one
generic_object_begin_open_close ==
  LET v == next_structural
      cur == next_structural + 1
  IN CASE At(v) = "}" ->
            Goto("generic_next", cur, v,
                 <<Cb("start_object", None, None, cur), Cb("end_object", None, None, cur)>>)
       [] At(v) = "\"" -> Goto("object_colon", cur, v, <<Cb("start_object", None, None, cur)>>)
       [] OTHER -> Return(TAPE_ERROR, cur, v)

generic_object_begin ==
  LET v == next_structural
      cur == next_structural + 1
  IN CASE At(v) = "}" -> Goto("generic_next", cur, v, <<Cb("empty_object", None, None, cur)>>)
       [] At(v) = "\"" -> Goto("object_colon", cur, v, <<Cb("start_object", None, None, cur)>>)
       [] OTHER -> Return(TAPE_ERROR, cur, v)

\* object_colon going on to the value whatever follows the key
object_colon_unchecked == Goto("object_value", next_structural + 1, value, <<>>)

object_colon ==
  IF At(next_structural) # ":"
    THEN Return(TAPE_ERROR, next_structural + 1, value)
    ELSE Goto("object_value", next_structural + 1, value, <<>>)

object_value ==
  LET key == value
      v == next_structural
      cur == next_structural + 1
      v2 == cur
      cur2 == cur + 1
  IN CASE At(v) = "{" ->
            (CASE At(v2) = "}" ->
                    Goto("object_next", cur2, v2, <<Cb("empty_object_field", key, None, cur2)>>)
               [] At(v2) = "\"" ->
                    Goto("object_colon", cur2, v2, <<Cb("start_object_field", key, None, cur2)>>)
               [] OTHER -> Return(TAPE_ERROR, cur2, v2))
       [] At(v) = "[" ->
            (CASE At(v2) = "]" ->
                    Goto("object_next", cur2, v2, <<Cb("empty_array_field", key, None, cur2)>>)
               [] OTHER ->
                    Goto("array_value", cur2, v2, <<Cb("start_array_field", key, None, cur2)>>))
       [] OTHER -> Goto("object_next", cur, v, <<Cb("primitive_field", key, v, cur)>>)

\* object_next going on to object_colon whatever follows the `,`
object_next_any_key ==
  LET c == At(next_structural)
      cur == next_structural + 1
      v == cur
      cur2 == cur + 1
  IN CASE c = "," -> Goto("object_colon", cur2, v, <<>>)
       [] c = "}" -> Goto("generic_next", cur, value, <<Cb("end_object", None, None, cur)>>)
       [] OTHER -> Return(TAPE_ERROR, cur, value)

\* object_next taking any other structural as the end of the document
object_next_lenient ==
  LET c == At(next_structural)
      cur == next_structural + 1
      v == cur
      cur2 == cur + 1
  IN CASE c = "," ->
            IF At(v) # "\"" THEN Return(TAPE_ERROR, cur2, v)
                            ELSE Goto("object_colon", cur2, v, <<>>)
       [] c = "}" -> Goto("generic_next", cur, value, <<Cb("end_object", None, None, cur)>>)
       [] OTHER -> Goto("document_end", cur - 1, value, <<>>)

object_next ==
  LET c == At(next_structural)
      cur == next_structural + 1
      v == cur
      cur2 == cur + 1
  IN CASE c = "," ->
            IF At(v) # "\"" THEN Return(TAPE_ERROR, cur2, v)
                            ELSE Goto("object_colon", cur2, v, <<>>)
       [] c = "}" -> Goto("generic_next", cur, value, <<Cb("end_object", None, None, cur)>>)
       [] OTHER -> Return(TAPE_ERROR, cur, value)

generic_array_begin ==
  LET v == next_structural
      cur == next_structural + 1
  IN CASE At(v) = "]" -> Goto("generic_next", cur, v, <<Cb("empty_array", None, None, cur)>>)
       [] OTHER -> Goto("array_value", cur, v, <<Cb("start_array", None, None, cur)>>)

array_value ==
  LET v2 == next_structural
      cur2 == next_structural + 1
  IN CASE At(value) = "{" ->
            (CASE At(v2) = "}" ->
                    Goto("array_next", cur2, v2, <<Cb("empty_object", None, None, cur2)>>)
               [] At(v2) = "\"" ->
                    Goto("object_colon", cur2, v2, <<Cb("start_object", None, None, cur2)>>)
               [] OTHER -> Return(TAPE_ERROR, cur2, v2))
       [] At(value) = "[" ->
            (CASE At(v2) = "]" ->
                    Goto("array_next", cur2, v2, <<Cb("empty_array", None, None, cur2)>>)
               [] OTHER ->
                    Goto("array_value", cur2, v2, <<Cb("start_array", None, None, cur2)>>))
       [] OTHER ->
            Goto("array_next", next_structural, value,
                 <<Cb("primitive", None, value, next_structural)>>)

\* array_next calling try_end_array where the code calls end_array
array_next_try_end ==
  LET c == At(next_structural)
      cur == next_structural + 1
  IN CASE c = "," -> Goto("array_value", cur + 1, cur, <<>>)
       [] c = "]" -> Goto("generic_next", cur, value, <<Cb("try_end_array", None, None, cur)>>)
       [] OTHER -> Return(TAPE_ERROR, cur, value)

\* array_next taking any other structural as the next element
array_next_lenient ==
  LET c == At(next_structural)
      cur == next_structural + 1
  IN CASE c = "," -> Goto("array_value", cur + 1, cur, <<>>)
       [] c = "]" -> Goto("generic_next", cur, value, <<Cb("end_array", None, None, cur)>>)
       [] OTHER -> Goto("array_value", cur, cur - 1, <<>>)

\* array_next jumping to array_value at `,` without advancing to the element
array_next_no_advance ==
  LET c == At(next_structural)
      cur == next_structural + 1
  IN CASE c = "," -> Goto("array_value", cur, cur, <<>>)
       [] c = "]" -> Goto("generic_next", cur, value, <<Cb("end_array", None, None, cur)>>)
       [] OTHER -> Return(TAPE_ERROR, cur, value)

array_next ==
  LET c == At(next_structural)
      cur == next_structural + 1
  IN CASE c = "," -> Goto("array_value", cur + 1, cur, <<>>)
       [] c = "]" -> Goto("generic_next", cur, value, <<Cb("end_array", None, None, cur)>>)
       [] OTHER -> Return(TAPE_ERROR, cur, value)

\* generic_next_string with the result of try_resume_array dropped before end_array
generic_next_string_untried(v, cur2) ==
  LET c3 == At(cur2)
      cur3 == cur2 + 1
      a == Goto("generic_next", cur3, v, <<Cb("try_resume_array", None, v, cur3)>>)
      b == GotoFrom("generic_next", cur3, v, <<Cb("end_array", None, None, cur3)>>,
                    a.depth, a.is_array)
  IN CASE c3 = ":" ->
            Goto("object_value", cur3, v, <<Cb("try_resume_object", None, None, cur3)>>)
       [] c3 = "," ->
            Goto("array_value", cur3, v, <<Cb("try_resume_array", None, v, cur3)>>)
       [] c3 = "]" -> [b EXCEPT !.evs = a.evs \o @]
       [] OTHER -> Return(TAPE_ERROR, cur3, v)

\* generic_next after `, "`: a key, or a string element of an array
generic_next_string(v, cur2) ==
  LET c3 == At(cur2)
      cur3 == cur2 + 1
  IN CASE c3 = ":" ->
            Goto("object_value", cur3, v, <<Cb("try_resume_object", None, None, cur3)>>)
       [] c3 = "," ->
            Goto("array_value", cur3, v, <<Cb("try_resume_array", None, v, cur3)>>)
       [] c3 = "]" ->
            Goto("generic_next", cur3, v,
                 <<Cb("try_resume_array", None, v, cur3), Cb("end_array", None, None, cur3)>>)
       [] OTHER -> Return(TAPE_ERROR, cur3, v)

\* generic_next_closer calling end_* where the code calls try_end_*
generic_next_closer_unchecked(c, cur) ==
  IF c = "]"
    THEN Goto("generic_next", cur, value, <<Cb("end_array", None, None, cur)>>)
    ELSE Goto("generic_next", cur, value, <<Cb("end_object", None, None, cur)>>)

\* generic_next at `]` or `}`
generic_next_closer(c, cur) ==
  IF c = "]"
    THEN Goto("generic_next", cur, value, <<Cb("try_end_array", None, None, cur)>>)
    ELSE Goto("generic_next", cur, value, <<Cb("try_end_object", None, None, cur)>>)

\* next_structural-- executed twice
back_up_twice(o) == [o EXCEPT !.cursor = @ - 2, !.backs = @ + 2]

\* next_structural--
back_up(o) == [o EXCEPT !.cursor = @ - 1, !.backs = @ + 1]

\* generic_next leaving the cursor past the structural that ended the document
generic_next_no_back_up ==
  LET c == At(next_structural)
      cur == next_structural + 1
      v == cur
      cur2 == cur + 1
  IN CASE c = "," ->
            (CASE At(v) = "\"" -> generic_next_string(v, cur2)
               [] At(v) = "[" ->
                    Goto("generic_array_begin", cur2, v,
                         <<Cb("try_resume_array", None, None, cur2)>>)
               [] At(v) = "{" ->
                    Goto("generic_object_begin", cur2, v,
                         <<Cb("try_resume_array", None, None, cur2)>>)
               [] OTHER ->
                    Goto("array_value", cur2, v,
                         <<Cb("try_resume_array", None, None, cur2)>>))
       [] c \in {"]", "}"} -> generic_next_closer(c, cur)
       [] OTHER -> Goto("document_end", cur, value, <<>>)

\* After a value, when the enclosing container is not known
generic_next ==
  LET c == At(next_structural)
      cur == next_structural + 1
      v == cur
      cur2 == cur + 1
  IN CASE c = "," ->
            (CASE At(v) = "\"" -> generic_next_string(v, cur2)
               [] At(v) = "[" ->
                    Goto("generic_array_begin", cur2, v,
                         <<Cb("try_resume_array", None, None, cur2)>>)
               [] At(v) = "{" ->
                    Goto("generic_object_begin", cur2, v,
                         <<Cb("try_resume_array", None, None, cur2)>>)
               [] OTHER ->
                    Goto("array_value", cur2, v,
                         <<Cb("try_resume_array", None, None, cur2)>>))
       [] c \in {"]", "}"} -> generic_next_closer(c, cur)
       [] OTHER -> back_up(Goto("document_end", cur, value, <<>>))

\* finish without the residual-token check
finish_no_residual_check(idx, d) == IF d # 0 THEN TAPE_ERROR ELSE SUCCESS

\* finish without the depth check
finish_no_depth_check(idx, d) ==
  IF ~streaming /\ idx # n_structural_indexes THEN TAPE_ERROR ELSE SUCCESS

\* finish<STREAMING>(), after next_structural_index has been stored
finish(idx, d) ==
  IF d # 0 THEN TAPE_ERROR
  ELSE IF ~streaming /\ idx # n_structural_indexes THEN TAPE_ERROR
  ELSE SUCCESS

document_end ==
  Goto("finish", next_structural, value,
       <<Cb("end_document", None, None, next_structural)>>)

\* ---------------------------------------------------------------------------
\* Inputs

\* The sequences of k members of S, and of at most k
RECURSIVE SeqsOf(_, _)
SeqsOf(S, k) ==
  IF k = 0 THEN {<<>>} ELSE {Append(s, t) : s \in SeqsOf(S, k - 1), t \in S}

SeqsUpTo(S, k) == UNION {SeqsOf(S, j) : j \in 0..k}

\* k members of S separated by ","
RECURSIVE Elems(_, _)
Elems(S, k) ==
  IF k = 0 THEN {<<>>}
  ELSE IF k = 1 THEN S
  ELSE {a \o <<",">> \o b : a \in Elems(S, k - 1), b \in S}

ElemsUpTo(S, k) == UNION {Elems(S, j) : j \in 0..k}

Arrays(S, k) == {<<"[">> \o e \o <<"]">> : e \in ElemsUpTo(S, k)}

Fields(S) == {<<"\"", ":">> \o v : v \in S}

Objects(S, k) == {<<"{">> \o e \o <<"}">> : e \in ElemsUpTo(Fields(S), k)}

Scalars == {<<"1">>, <<"\"">>}

\* Valid documents: scalars, containers of scalars, containers of those
Values1 == Scalars \cup Arrays(Scalars, MaxElems) \cup Objects(Scalars, MaxElems)

Values2 ==
  {<<"[">> \o a \o <<",">> \o b \o <<"]">> : a \in Values1, b \in Values1}
  \cup {<<"{", "\"", ":">> \o a \o <<",", "\"", ":">> \o b \o <<"}">> :
           a \in Values1, b \in Values1}

\* Containers of one member
Nested == {<<"[">> \o v \o <<"]">> : v \in Values1}
          \cup {<<"{", "\"", ":">> \o v \o <<"}">> : v \in Values1}

\* Valid arrays and objects whose second member is a scalar and follows any value
ScalarSecond ==
  {<<"[">> \o a \o <<",">> \o b \o <<",">> \o c \o <<"]">> :
     a \in Values1, b \in Scalars, c \in Scalars}
  \cup {<<"{", "\"", ":">> \o a \o <<",", "\"", ":">> \o b \o <<",", "\"", ":">> \o c \o <<"}">> :
     a \in Values1, b \in Scalars, c \in Scalars}

ValidDocs == Values1 \cup Nested \cup Values2 \cup ScalarSecond

\* Every stream that differs from a container of one member in one token, or
\* stops short of its end
Damaged ==
  UNION {{[d EXCEPT ![i] = t] : i \in 1..Len(d), t \in Tokens}
         \cup {SubSeq(d, 1, i) : i \in 0..Len(d)} : d \in Nested}

\* Several documents in one buffer, and a document followed by one more token
Concatenated ==
  {a \o b : a \in Values1, b \in Values1}
  \cup {a \o b \o c : a \in Scalars, b \in Scalars, c \in Scalars}
  \cup {d \o <<t>> : d \in Values1 \cup Nested \cup ScalarSecond, t \in Tokens}

\* A closed container at the top level, in an array or in a field, followed by
\* any tokens
Resumed ==
  {c \o d \o r :
     c \in {<<>>, <<"[">>, <<"{", "\"", ":">>},
     d \in {<<"{", "}">>, <<"[", "]">>, <<"[", "1", "]">>, <<"{", "\"", ":", "1", "}">>},
     r \in SeqsUpTo(Tokens, MaxLen - 1)}

Inputs ==
  SeqsUpTo(Tokens, MaxLen) \cup ValidDocs \cup Damaged \cup Concatenated \cup Resumed

\* ---------------------------------------------------------------------------
\* The state machine

Init ==
  /\ buf \in Inputs
  /\ streaming \in BOOLEAN
  /\ next_structural_index = 0
  /\ next_structural = 0
  /\ value = None
  /\ depth = 0
  /\ is_array = <<>>
  /\ pc = "idle"
  /\ result = PENDING
  /\ events = <<>>
  /\ calls = 0
  /\ finish_ran = FALSE
  /\ entry_index = 0
  /\ decrements = 0

\* A fresh parser and a fresh builder run from the entry to the first state
Enter(o) ==
  /\ pc' = o.pc
  /\ result' = o.result
  /\ next_structural' = o.cursor
  /\ value' = o.value
  /\ events' = o.evs
  /\ depth' = o.depth
  /\ is_array' = o.is_array
  /\ decrements' = o.backs

\* parse<STREAMING>(dom_parser, builder), up to the jump to the first state
ParseEntry ==
  /\ pc = "idle" \/ (pc = "returned" /\ result = SUCCESS /\ streaming)
  /\ calls < MaxCalls
  /\ calls' = calls + 1
  /\ finish_ran' = FALSE
  /\ entry_index' = next_structural_index
  /\ Enter(parse_entry)
  /\ UNCHANGED <<buf, streaming, next_structural_index>>

GenericObjectBegin == pc = "generic_object_begin" /\ Apply(generic_object_begin)

ObjectColon == pc = "object_colon" /\ Apply(object_colon)

ObjectValue == pc = "object_value" /\ Apply(object_value)

ObjectNext == pc = "object_next" /\ Apply(object_next)

GenericArrayBegin == pc = "generic_array_begin" /\ Apply(generic_array_begin)

ArrayValue == pc = "array_value" /\ Apply(array_value)

ArrayNext == pc = "array_next" /\ Apply(array_next)

GenericNext == pc = "generic_next" /\ Apply(generic_next)

\* finish storing the cursor only when it returns SUCCESS
Finish_store_on_success(o) ==
  /\ next_structural_index' =
       (IF finish(o.cursor, o.depth) = SUCCESS THEN o.cursor ELSE next_structural_index)
  /\ finish_ran' = TRUE
  /\ result' = finish(o.cursor, o.depth)
  /\ pc' = "returned"
  /\ events' = events \o o.evs
  /\ depth' = o.depth
  /\ is_array' = o.is_array
  /\ UNCHANGED <<buf, streaming, next_structural, value, calls, entry_index, decrements>>

\* finish, o being the outcome of end_document
Finish(o) ==
  /\ next_structural_index' = o.cursor
  /\ finish_ran' = TRUE
  /\ result' = finish(o.cursor, o.depth)
  /\ pc' = "returned"
  /\ events' = events \o o.evs
  /\ depth' = o.depth
  /\ is_array' = o.is_array
  /\ UNCHANGED <<buf, streaming, next_structural, value, calls, entry_index, decrements>>

EndDocument(o) == IF o.pc = "returned" THEN Apply(o) ELSE Finish(o)

\* document_end: end_document, then finish
DocumentEnd == pc = "document_end" /\ EndDocument(document_end)

Next ==
  \/ ParseEntry
  \/ GenericObjectBegin
  \/ ObjectColon
  \/ ObjectValue
  \/ ObjectNext
  \/ GenericArrayBegin
  \/ ArrayValue
  \/ ArrayNext
  \/ GenericNext
  \/ DocumentEnd

Spec == Init /\ [][Next]_vars

\* ---------------------------------------------------------------------------
\* Properties

Returned == pc = "returned"

Openers == {"start_object", "start_object_field", "start_array", "start_array_field"}

Closers == {"end_object", "try_end_object", "end_array", "try_end_array"}

KindOf(name) ==
  IF name \in {"start_array", "start_array_field", "end_array", "try_end_array"}
    THEN "array" ELSE "object"

Names(evs) == [i \in 1..Len(evs) |-> evs[i].name]

\* Every opening event of evs from i on, and every opening on the stack st, is
\* closed once by an event of its kind that leaves the depth the opening found.
RECURSIVE Balanced(_, _, _)
Balanced(evs, i, st) ==
  IF i > Len(evs) THEN st = <<>>
  ELSE LET e == evs[i]
       IN IF e.name \in Openers
            THEN Balanced(evs, i + 1, Append(st, [kind |-> KindOf(e.name), depth |-> e.depth]))
          ELSE IF e.name \in Closers
            THEN /\ st # <<>>
                 /\ st[Len(st)].kind = KindOf(e.name)
                 /\ st[Len(st)].depth = e.depth + 1
                 /\ Balanced(evs, i + 1, Front(st))
          ELSE Balanced(evs, i + 1, st)

\* The JSON grammar over the stream: the index after the value that starts at i,
\* with d containers open around it, or None when no value within the builder's
\* nesting limit starts there.
RECURSIVE ValueEnd(_, _), ArrayRest(_, _), ObjectRest(_, _)
ValueEnd(i, d) ==
  IF At(i) \in {"1", "\""} THEN i + 1
  ELSE IF At(i) = "[" /\ At(i + 1) = "]" THEN i + 2
  ELSE IF At(i) = "{" /\ At(i + 1) = "}" THEN i + 2
  ELSE IF At(i) = "[" /\ d < MaxDepth THEN ArrayRest(ValueEnd(i + 1, d + 1), d + 1)
  ELSE IF At(i) = "{" /\ d < MaxDepth THEN ObjectRest(i + 1, d + 1)
  ELSE None

ArrayRest(j, d) ==
  IF j = None THEN None
  ELSE IF At(j) = "]" THEN j + 1
  ELSE IF At(j) = "," THEN ArrayRest(ValueEnd(j + 1, d), d)
  ELSE None

ObjectRest(j, d) ==
  IF At(j) = "\"" /\ At(j + 1) = ":"
    THEN LET e == ValueEnd(j + 2, d)
         IN IF e = None THEN None
            ELSE IF At(e) = "}" THEN e + 1
            ELSE IF At(e) = "," THEN ObjectRest(e + 1, d)
            ELSE None
    ELSE None

\* The number of values the buffer is a concatenation of from index i on, or None
RECURSIVE CountValues(_)
CountValues(i) ==
  IF i = Len(buf) THEN 0
  ELSE LET e == ValueEnd(i, 0)
       IN IF e = None THEN None
          ELSE LET k == CountValues(e) IN IF k = None THEN None ELSE k + 1

\* The index at which the j-th value of a concatenation starts
RECURSIVE NthStart(_)
NthStart(j) == IF j <= 1 THEN 0 ELSE ValueEnd(NthStart(j - 1), 0)

\* The index of the first closer from i on that closes a container of the other
\* kind or no container, st being the containers open at i; None without one.
RECURSIVE BadCloser(_, _)
BadCloser(i, st) ==
  IF i >= Len(buf) THEN None
  ELSE IF At(i) \in {"[", "{"} THEN BadCloser(i + 1, Append(st, At(i)))
  ELSE IF At(i) \in {"]", "}"}
    THEN IF st = <<>> \/ (st[Len(st)] = "[") # (At(i) = "]")
           THEN i
           ELSE BadCloser(i + 1, Front(st))
  ELSE BadCloser(i + 1, st)

Ev(name, k, v) == [name |-> name, key |-> k, value |-> v]

Calls(evs) == [i \in 1..Len(evs) |-> Ev(evs[i].name, evs[i].key, evs[i].value)]

\* C1: a non-streaming parse that returns SUCCESS ends with depth 0 and with the
\* stored next_structural_index equal to n_structural_indexes.
C1_SuccessConsumesAll ==
  (Returned /\ result = SUCCESS /\ ~streaming)
    => (depth = 0 /\ next_structural_index = n_structural_indexes)

C1_Witness ==
  /\ Returned /\ result = SUCCESS /\ ~streaming /\ finish_ran
  /\ Len(buf) > 2
  /\ next_structural_index = Len(buf)

\* C4: a call entered with the cursor at the end of the structurals returns EMPTY
\* and invokes no builder callback, not even start_document.
C4_EmptyNoEvents ==
  (calls > 0 /\ (IF streaming THEN entry_index ELSE 0) = n_structural_indexes)
    => (Returned /\ result = EMPTY /\ events = <<>> /\ ~finish_ran)

C4_Witness ==
  /\ Returned /\ result = EMPTY /\ events = <<>>
  /\ streaming /\ calls > 1 /\ entry_index = n_structural_indexes

\* C5: a builder callback that does not return SUCCESS is the last callback of
\* the call, the call returns its code, and finish is not run.
C5_BuilderErrorReturned ==
  \A i \in 1..Len(events) :
    events[i].rc # SUCCESS
      => /\ i = Len(events)
         /\ Returned
         /\ result = events[i].rc
         /\ ~finish_ran
         /\ next_structural_index = entry_index

C5_Witness ==
  /\ Returned /\ result = NUMBER_ERROR
  /\ Len(events) > 2
  /\ events[Len(events)].name = "primitive_field"
  /\ events[Len(events)].rc = NUMBER_ERROR

\* C6: on a parse that returns SUCCESS the opening events and the closing events
\* are properly nested, each opening closed exactly once by a closing event of its
\* kind at the same depth.
C6_OpenCloseNested ==
  (Returned /\ result = SUCCESS) => Balanced(events, 1, <<>>)

C6_Witness ==
  /\ Returned /\ result = SUCCESS
  /\ \E i, j \in 1..Len(events) :
       /\ i < j
       /\ events[i].name = "start_array_field"
       /\ events[j].name = "try_end_object"

\* C10: a call that runs finish with depth # 0 returns TAPE_ERROR, streaming or not.
C10_UnclosedIsTapeError ==
  (Returned /\ finish_ran /\ depth # 0) => result = TAPE_ERROR

C10_Witness ==
  /\ Returned /\ finish_ran /\ depth # 0 /\ streaming
  /\ buf = <<"{", "\"", ":", "[", "1", "]">>

\* C2: a complete value followed by tokens that do not continue a container
\* (another value starts there): a non-streaming parse returns TAPE_ERROR, a
\* streaming parse returns SUCCESS and stores the index after the first value.
C2_TrailingTokens ==
  LET e == ValueEnd(0, 0)
  IN (Returned /\ calls = 1 /\ e # None /\ e < Len(buf) /\ At(e) \notin {",", "]", "}"})
       => IF streaming
            THEN result = SUCCESS /\ next_structural_index = e
            ELSE result = TAPE_ERROR

\* C3: streaming over k concatenated valid values, call i <= k returns SUCCESS,
\* starts where call i - 1 stopped, stops after the i-th value, brackets its
\* events in start_document and end_document with every event between about a
\* structural of that value (a scalar: one root_primitive); call k + 1 is EMPTY.
C3_StreamingValues ==
  LET k == CountValues(0)
      b == NthStart(calls)
      e == ValueEnd(b, 0)
  IN (Returned /\ streaming /\ k # None)
       => IF calls <= k
            THEN /\ result = SUCCESS
                 /\ entry_index = b
                 /\ next_structural_index = e
                 /\ Len(events) >= 3
                 /\ events[1].name = "start_document"
                 /\ events[Len(events)].name = "end_document"
                 /\ \A i \in 2..(Len(events) - 1) :
                      events[i].cursor > b /\ events[i].cursor <= e
                 /\ (e = b + 1 => Calls(events) =
                       <<Ev("start_document", None, None), Ev("root_primitive", None, b),
                         Ev("end_document", None, None)>>)
            ELSE result = EMPTY /\ events = <<>>

\* C7 as stated: a stream with a closer of the wrong kind, or with no container
\* open, makes parse return TAPE_ERROR.
C7_BadCloserTapeError ==
  (Returned /\ BadCloser(0, <<>>) # None) => result = TAPE_ERROR

\* C7 amended: with such a closer in the stream, a call returns SUCCESS only when
\* streaming and stopping at or before the closer, and any code other than
\* TAPE_ERROR is the code of the builder callback that failed; try_end_array and
\* try_end_object succeed only on an innermost container of their kind.
C7_BadCloserNotAccepted ==
  /\ (Returned /\ BadCloser(0, <<>>) # None)
       => /\ result = SUCCESS => (streaming /\ next_structural_index <= BadCloser(0, <<>>))
          /\ result \notin {SUCCESS, TAPE_ERROR}
               => (events # <<>> /\ events[Len(events)].rc = result)
  /\ \A i \in 1..Len(events) :
       (events[i].name \in {"try_end_array", "try_end_object"} /\ events[i].rc = SUCCESS)
         => events[i].top = KindOf(events[i].name)

C7_Witness ==
  /\ Returned /\ result = TAPE_ERROR
  /\ buf = <<"{", "\"", ":", "[", "1", "]", "]">>
  /\ events[Len(events)].name = "try_end_array"
  /\ events[Len(events)].top = "object"

\* {"a":1,"b":[true,null]}
Doc8 == <<"{", "\"", ":", "1", ",", "\"", ":", "[", "1", ",", "1", "]", "}">>

\* C8 as stated: the events of Doc8 are start_document, start_object,
\* start_array_field, primitive, primitive_field, start_array, primitive,
\* primitive, end_array, end_object, end_document.
C8_SpecEvents ==
  (Returned /\ ~streaming /\ buf = Doc8)
    => /\ result = SUCCESS
       /\ Names(events) =
            <<"start_document", "start_object", "start_array_field", "primitive",
              "primitive_field", "start_array", "primitive", "primitive", "end_array",
              "end_object", "end_document">>

\* C8 amended: the events of Doc8 are start_document, start_object,
\* primitive_field("a", 1), start_array_field("b"), primitive(true),
\* primitive(null), end_array, try_end_object, end_document, and parse returns
\* SUCCESS.
C8_CodeEvents ==
  (Returned /\ ~streaming /\ buf = Doc8)
    => /\ result = SUCCESS
       /\ Calls(events) =
            <<Ev("start_document", None, None), Ev("start_object", None, None),
              Ev("primitive_field", 1, 3), Ev("start_array_field", 5, None),
              Ev("primitive", None, 8), Ev("primitive", None, 10),
              Ev("end_array", None, None), Ev("try_end_object", None, None),
              Ev("end_document", None, None)>>

C8_Witness == Returned /\ ~streaming /\ buf = Doc8 /\ Len(events) = 9 /\ finish_ran

NumberOf(evs, S) == Cardinality({i \in 1..Len(evs) : evs[i].name \in S})

\* C9 as stated: {} and [] return SUCCESS with exactly one opening and one
\* closing event between start_document and end_document.
C9_OneOpenClosePair ==
  (Returned /\ ~streaming /\ buf \in {<<"{", "}">>, <<"[", "]">>})
    => /\ result = SUCCESS
       /\ NumberOf(events, Openers) = 1
       /\ NumberOf(events, Closers) = 1

\* C9 amended: {} and [] return SUCCESS with exactly one event between
\* start_document and end_document, empty_object respectively empty_array, and
\* no opening or closing event.
C9_OneEmptyEvent ==
  (Returned /\ ~streaming /\ buf \in {<<"{", "}">>, <<"[", "]">>})
    => /\ result = SUCCESS
       /\ Names(events) =
            <<"start_document",
              IF buf[1] = "{" THEN "empty_object" ELSE "empty_array",
              "end_document">>

C9_Witness ==
  /\ Returned /\ ~streaming /\ buf = <<"{", "}">>
  /\ Len(events) = 3 /\ events[2].name = "empty_object"

\* The first call on a buffer has returned
FirstReturned == Returned /\ calls = 1

\* C11: an object whose first field has a scalar value followed by a structural
\* that is neither `,` nor `}` (the sentinel included): the builder receives
\* start_document, start_object, primitive_field(key, value), and parse returns
\* TAPE_ERROR from object_next, having consumed that structural, without running
\* end_object, end_document or finish.
C11_ObjectNextError ==
  (FirstReturned /\ At(0) = "{" /\ At(1) = "\"" /\ At(2) = ":" /\ At(3) \in {"1", "\""}
     /\ At(4) \notin {",", "}"})
    => /\ result = TAPE_ERROR
       /\ Calls(events) =
            <<Ev("start_document", None, None), Ev("start_object", None, None),
              Ev("primitive_field", 1, 3)>>
       /\ next_structural = 5
       /\ ~finish_ran

C11_Witness ==
  /\ FirstReturned /\ result = TAPE_ERROR
  /\ buf = <<"{", "\"", ":", "1">>
  /\ Len(events) = 3 /\ events[3].name = "primitive_field"
  /\ next_structural = 5

StringAfterContainer ==
  LET j == ValueEnd(1, 1)
  IN IF /\ At(0) = "[" /\ At(1) \in {"[", "{"}
        /\ j # None /\ j > 3
        /\ At(j) = "," /\ At(j + 1) = "\"" /\ At(j + 2) = ","
        /\ ValueEnd(0, 0) = Len(buf)
       THEN j + 1 ELSE None

\* C13: in a valid array whose first element is a non-empty container, a string
\* element that follows it and is followed by `,` is passed to the builder exactly
\* once, the element after it is passed to the builder, and parse returns SUCCESS.
C13_StringDeliveredOnce ==
  (FirstReturned /\ StringAfterContainer # None)
    => /\ result = SUCCESS
       /\ Cardinality({i \in 1..Len(events) : events[i].value = StringAfterContainer}) = 1
       /\ At(StringAfterContainer + 2) \in {"1", "\""}
            => \E i \in 1..Len(events) :
                 events[i].name = "primitive" /\ events[i].value = StringAfterContainer + 2

\* A call is under way
InCall == pc \notin {"idle", "returned"}

\* One step of the machine as C14 allows it
C14_Step ==
  /\ InCall =>
       /\ next_structural' >= next_structural
       /\ decrements' # decrements =>
            /\ pc = "generic_next"
            /\ At(next_structural) \notin {",", "]", "}"}
            /\ decrements = 0 /\ decrements' = 1
            /\ next_structural' = (next_structural + 1) - 1
            /\ pc' = "document_end"
  /\ decrements' <= 1
  /\ At(IF streaming THEN entry_index' ELSE 0) \notin {"{", "["} => decrements' = 0

\* C14: within one call the cursor never ends a state below where the state found
\* it; next_structural-- is executed at most once per call, only in the default
\* branch of generic_next after that branch's advance, and document_end follows;
\* a call whose top-level value is a scalar never executes it.
C14_CursorMonotone == [][C14_Step]_vars

C14_Witness ==
  /\ Returned /\ result = SUCCESS /\ decrements = 1
  /\ streaming /\ calls = 2 /\ next_structural = Len(buf) /\ entry_index > 0

ObjectStarts == {"start_object", "start_object_field", "empty_object", "empty_object_field"}

ArrayStarts == {"start_array", "start_array_field", "empty_array", "empty_array_field"}

Primitives == {"primitive", "primitive_field", "root_primitive"}

\* The structural k positions before the cursor of event e
Behind(e, k) == At(e.cursor - k)

\* C15 as stated: at every event the cursor is one past the structural the event
\* is about: the opener for start_* and empty_*, the closer for end_* and
\* try_end_*, the scalar for the primitives, the resumed value for try_resume_*.
C15_CursorOnePast ==
  \A i \in 1..Len(events) :
    LET e == events[i]
    IN /\ e.name \in ObjectStarts => Behind(e, 1) = "{"
       /\ e.name \in ArrayStarts => Behind(e, 1) = "["
       /\ e.name \in {"end_object", "try_end_object"} => Behind(e, 1) = "}"
       /\ e.name \in {"end_array", "try_end_array"} => Behind(e, 1) = "]"
       /\ e.name \in Primitives => e.cursor = e.value + 1
       /\ (e.name = "try_resume_array" /\ e.value # None) => e.cursor = e.value + 1
       /\ (e.name = "try_resume_array" /\ e.value = None) => Behind(e, 2) = ","
       /\ e.name = "try_resume_object" => Behind(e, 2) = ","

\* The event is the primitive(value) that array_value makes after generic_next
\* resumed the array at `, "string" ,`
ResumedString(evs, i) ==
  /\ i > 1
  /\ evs[i].name = "primitive"
  /\ evs[i - 1].name = "try_resume_array"
  /\ evs[i - 1].value = evs[i].value

\* C15 amended: the cursor is two past the opener at start_* and empty_* (one past
\* the structural that follows the opener), one past the closer at end_* and
\* try_end_*, one past the scalar at primitive, primitive_field and
\* root_primitive, except two past it at the primitive of a string resumed by
\* try_resume_array(value); at try_resume_array(value) it is two past the string
\* (one past the `,` or `]` after it), at try_resume_array() one past the first
\* structural of the resumed value, at try_resume_object one past the `:` of the
\* resumed field.
C15_CursorAtEvent ==
  \A i \in 1..Len(events) :
    LET e == events[i]
    IN /\ e.name \in ObjectStarts =>
            /\ Behind(e, 2) = "{"
            /\ Behind(e, 1) = (IF e.name \in {"empty_object", "empty_object_field"}
                                 THEN "}" ELSE "\"")
       /\ e.name \in ArrayStarts =>
            /\ Behind(e, 2) = "["
            /\ (Behind(e, 1) = "]") = (e.name \in {"empty_array", "empty_array_field"})
       /\ e.name \in {"end_object", "try_end_object"} => Behind(e, 1) = "}"
       /\ e.name \in {"end_array", "try_end_array"} => Behind(e, 1) = "]"
       /\ e.name \in Primitives =>
            e.cursor = (IF ResumedString(events, i) THEN e.value + 2 ELSE e.value + 1)
       /\ (e.name = "try_resume_array" /\ e.value # None) =>
            /\ e.cursor = e.value + 2
            /\ At(e.value) = "\"" /\ Behind(e, 3) = "," /\ Behind(e, 1) \in {",", "]"}
       /\ (e.name = "try_resume_array" /\ e.value = None) =>
            /\ Behind(e, 2) = ","
            /\ Behind(e, 1) \notin {"\""}
       /\ e.name = "try_resume_object" =>
            Behind(e, 3) = "," /\ Behind(e, 2) = "\"" /\ Behind(e, 1) = ":"

C15_Witness ==
  /\ Returned /\ result = SUCCESS
  /\ \E i, j \in 1..Len(events) :
       /\ events[i].name = "start_array_field" /\ Behind(events[i], 2) = "["
       /\ events[j].name = "try_resume_object" /\ Behind(events[j], 1) = ":"

\* The states that can be left without consuming a structural count double
Weight(p) ==
  IF p \in {"idle", "returned"} THEN 0
  ELSE IF p \in {"array_value", "generic_next"} THEN 2 ELSE 1

\* A bound on the states the call can still run: three per structural left,
\* the sentinel included
Measure(p, cur) == 3 * ((n_structural_indexes + 1) - cur) + Weight(p)

\* The cursor is within the structurals or at most one past the sentinel entry,
\* and the stored index is within the structurals
CursorInBounds ==
  /\ next_structural >= 0 /\ next_structural <= n_structural_indexes + 1
  /\ next_structural_index >= 0 /\ next_structural_index <= n_structural_indexes

C16_Step ==
  /\ CursorInBounds'
  /\ InCall => (Measure(pc', next_structural') < Measure(pc, next_structural)
                /\ Measure(pc', next_structural') >= 0)

C17_OuterArrayPreCheck ==
  /\ (Returned /\ ~streaming /\ At(0) = "[" /\ At(n_structural_indexes - 1) # "]")
       => /\ result = TAPE_ERROR
          /\ Calls(events) = <<Ev("start_document", None, None)>>
          /\ next_structural = 1
          /\ ~finish_ran
  /\ (FirstReturned /\ streaming /\ At(0) = "[")
       => /\ Len(events) >= 2
          /\ events[2].name = (IF At(1) = "]" THEN "empty_array" ELSE "start_array")
          /\ events[2].rc = SUCCESS

C17_Witness ==
  /\ Returned /\ ~streaming /\ result = TAPE_ERROR
  /\ buf = <<"[", "1", "]", "1">>
  /\ Len(events) = 1

FieldEvents ==
  {"primitive_field", "start_object_field", "start_array_field", "empty_object_field",
   "empty_array_field"}

\* The positions of the field events among the callbacks evs
FieldEventsOf(evs) == {i \in 1..Len(evs) : evs[i].name \in FieldEvents}

\* The field event e has a string as key, one `:` right after the key and its
\* value right after that `:`; the cursor is past the value's first structural
\* (past the second for a container).
ColonBetween(e) ==
  /\ e.key # None
  /\ At(e.key) = "\""
  /\ At(e.key + 1) = ":"
  /\ IF e.name = "primitive_field"
       THEN e.value = e.key + 2 /\ e.cursor = e.key + 3
       ELSE /\ At(e.key + 2) = (IF e.name \in {"start_array_field", "empty_array_field"}
                                  THEN "[" ELSE "{")
            /\ e.cursor = e.key + 4

\* The parser holds a key that is not followed by `:`: in object_colon, or in
\* generic_next at `, "string"` with an object innermost
KeyWithoutColon ==
  \/ pc = "object_colon" /\ At(next_structural) # ":"
  \/ /\ pc = "generic_next" /\ TopOf(is_array) = "object"
     /\ At(next_structural) = "," /\ At(next_structural + 1) = "\""
     /\ At(next_structural + 2) # ":"

C18_Step ==
  /\ \A i \in FieldEventsOf(events') : ColonBetween(events'[i])
  /\ (InCall /\ FieldEventsOf(events') # FieldEventsOf(events)) =>
       /\ pc = "object_value"
       /\ At(next_structural - 1) = ":" /\ value = next_structural - 2
  /\ KeyWithoutColon =>
       /\ pc' = "returned" /\ result' = TAPE_ERROR
       /\ FieldEventsOf(events') = FieldEventsOf(events)

\* C18: every field event has a string key, exactly one `:` between the key and
\* the value, consumed by the state before object_value (object_colon, or
\* generic_next for a resumed field); a key not followed by `:` makes parse
\* return TAPE_ERROR without a field event for it.
C18_ColonPerField == [][C18_Step]_vars

C18_Witness ==
  /\ Returned /\ result = SUCCESS
  /\ \E i, j \in 1..Len(events) :
       /\ i < j
       /\ events[i].name = "try_resume_object"
       /\ events[j].name = "primitive_field" /\ events[j].key = events[i].cursor - 2
       /\ ColonBetween(events[j])

\* The parser is about to read the structural after the `{` of an object
\* (object_value reads the `{` of a field value in the same state) and that
\* structural is neither a key nor `}`
NoFirstKey ==
  /\ \/ pc = "generic_object_begin"
     \/ pc = "object_value" /\ At(next_structural) = "{"
     \/ pc = "array_value" /\ At(value) = "{"
  /\ At(IF pc = "object_value" THEN next_structural + 1 ELSE next_structural)
       \notin {"\"", "}"}

\* The parser is at a `,` inside an object, after a field (object_next) or after
\* a nested container closed inside the object (generic_next), and the structural
\* after the `,` is not a key
NoNextKey ==
  /\ \/ pc = "object_next"
     \/ pc = "generic_next" /\ TopOf(is_array) = "object"
  /\ At(next_structural) = ","
  /\ At(next_structural + 1) # "\""

C19_Step ==
  (NoFirstKey \/ NoNextKey)
    => /\ pc' = "returned" /\ result' = TAPE_ERROR
       /\ FieldEventsOf(events') = FieldEventsOf(events)
       /\ ~finish_ran'

\* C19: where an object field must begin (after the `{` of a non-empty object,
\* after a `,` inside an object, also one that follows a nested container) and
\* the next structural is not a `"`, parse returns TAPE_ERROR with no field event.
C19_FieldNeedsKey == [][C19_Step]_vars

C19_Witness ==
  /\ Returned /\ result = TAPE_ERROR /\ ~finish_ran
  /\ buf = <<"{", "\"", ":", "[", "1", "]", ",", "1", "}">>
  /\ events[Len(events)].name = "try_resume_array"
  /\ events[Len(events)].top = "object"

C20_Step ==
  /\ next_structural_index' # next_structural_index
       => (pc = "document_end" /\ ~finish_ran /\ finish_ran')
  /\ (pc' = "returned" /\ ~finish_ran')
       => /\ next_structural_index' = entry_index'
          /\ result' \in {EMPTY, TAPE_ERROR, NUMBER_ERROR, DEPTH_ERROR}
  /\ finish_ran'
       => /\ pc' = "returned"
          /\ next_structural_index' = next_structural'
          /\ result' \in {SUCCESS, TAPE_ERROR}
          /\ result' = TAPE_ERROR
               <=> (depth' # 0 \/ (~streaming /\ next_structural' # n_structural_indexes))

\* C20: next_structural_index is written by finish only. A call that returns
\* without running finish (EMPTY, a TAPE_ERROR of the state machine, a builder
\* error) leaves it as the call found it; a call that runs finish has stored the
\* cursor in it, also when finish returns TAPE_ERROR for depth # 0 or for residual
\* structurals.
C20_IndexWrittenByFinish == [][C20_Step]_vars

C20_Witness ==
  /\ Returned /\ finish_ran /\ result = TAPE_ERROR /\ depth # 0
  /\ next_structural_index = next_structural
  /\ next_structural_index # entry_index

====

